---- MODULE Spec2Model ----
(***************************************************************************)
(* The notebook examples/notebooks/statespace_concentrated_scale.ipynb:    *)
(* the two model classes LocalLevel and LocalLevelConcentrated (their      *)
(* class attributes, __init__, transform_params, untransform_params and    *)
(* update), and the cells that construct, fit and compare them and the two *)
(* SARIMAX models.                                                         *)
(*                                                                         *)
(* Parameters and matrix entries are binary floating-point numbers. They   *)
(* are modelled as a reduced-precision format of the same kind as float64  *)
(* (round to nearest, ties to even, gradual underflow, overflow to inf,    *)
(* NaN), so that x**2 and x**0.5 round as the notebook's arithmetic does.  *)
(*                                                                         *)
(* The Kalman filter, the likelihood and the optimizer belong to the       *)
(* library the notebook calls. Of them only what reaches the notebook's    *)
(* own code is modelled: the optimizer proposes arbitrary vectors of the   *)
(* model's dimension, each is transformed and passed to update, and a      *)
(* concentrated filter returns some scale.                                 *)
(***************************************************************************)
EXTENDS Integers, Sequences, FiniteSets, TLC

\* ------------------------------------------------------------- bounds
\* Width of the significand, in bits (float64: 53).
MantBits == 3
\* Results of magnitude 2^(2*ExpHalf) and above overflow (float64: 512).
ExpHalf == 3
\* The smallest exponent of the unit in the last place is -MinExp (float64: 1074).
MinExp == 6
\* The optimizer proposes multiples of 1/2 of magnitude up to TrialMax/2.
TrialMax == 3
\* Evaluations of the objective the optimizer makes in one fit.
MaxIter == 2
\* Length of the observed series.
SeriesLen == 2
\* Direct calls of the hooks in one behaviour of SpecHooks.
MaxCalls == 2

\* --------------------------------------------- floating-point numbers
Emin == 0 - MinExp
Emax == 2 * ExpHalf - MantBits

NaN == [k |-> "nan", m |-> 0, e |-> 0]
Inf(s) == [k |-> "inf", m |-> s, e |-> 0]
Zero == [k |-> "num", m |-> 0, e |-> 0]
\* The number m * 2^e.
Num(m, e) == [k |-> "num", m |-> m, e |-> e]

Abs(n) == IF n < 0 THEN 0 - n ELSE n
Sign(n) == IF n < 0 THEN 0 - 1 ELSE 1
Max(a, b) == IF a > b THEN a ELSE b

\* Number of bits of the natural number a.
BitLen(a) == CHOOSE L \in 0..30 : (L = 0 \/ 2^(L-1) <= a) /\ a < 2^L

\* The exact value n * 2^k rounded to the format: to nearest, ties to even;
\* below the normal range the spacing stays 2^Emin; too large becomes inf.
Round(n, k) ==
  IF n = 0 THEN Zero
  ELSE LET a == Abs(n)
           e0 == Max(k + BitLen(a) - MantBits, Emin)
           q0 == IF e0 <= k THEN a * 2^(k - e0) ELSE a \div 2^(e0 - k)
           r == IF e0 <= k THEN 0 ELSE a % 2^(e0 - k)
           half == IF e0 <= k THEN 1 ELSE 2^(e0 - k - 1)
           up == r > half \/ (r = half /\ q0 % 2 = 1)
           q1 == IF up THEN q0 + 1 ELSE q0
           carry == q1 = 2^MantBits
           q == IF carry THEN 2^(MantBits - 1) ELSE q1
           e == IF carry THEN e0 + 1 ELSE e0
       IN IF e > Emax THEN Inf(Sign(n))
          ELSE IF q = 0 THEN Zero
          ELSE Num(Sign(n) * q, e)

\* The floor of the square root of the natural number n.
ISqrt(n) == CHOOSE r \in 0..2^((BitLen(n) + 1) \div 2) : r * r <= n /\ n < (r + 1) * (r + 1)

\* x**2 on one entry: the exact square, rounded once.
Square(x) ==
  CASE x.k = "nan" -> NaN
    [] x.k = "inf" -> Inf(1)
    [] OTHER -> Round(x.m * x.m, 2 * x.e)

\* x**0.5 on one entry: the correctly rounded square root; NaN below zero.
Sqrt(x) ==
  CASE x.k = "nan" -> NaN
    [] x.k = "inf" -> IF x.m > 0 THEN Inf(1) ELSE NaN
    [] x.m < 0 -> NaN
    [] x.m = 0 -> Zero
    [] OTHER ->
       LET odd == x.e % 2 = 1
           n0 == IF odd THEN 2 * x.m ELSE x.m
           e0 == IF odd THEN x.e - 1 ELSE x.e
           T == MantBits + 2
           N == n0 * 2^(2 * T)
           r == ISqrt(N)
           sticky == IF r * r = N THEN 0 ELSE 1
       IN Round(2 * r + sticky, (e0 \div 2) - T - 1)

\* The literal 1 (1., and the 1 assigned to a matrix entry).
One == Round(1, 0)

\* Every finite number of the format, and with the infinities.
Finite ==
  {Zero}
  \cup { Num(s * m, e) : s \in {0 - 1, 1}, m \in 2^(MantBits-1)..(2^MantBits - 1), e \in Emin..Emax }
  \cup { Num(s * m, Emin) : s \in {0 - 1, 1}, m \in 1..(2^(MantBits-1) - 1) }
Floats == Finite \cup {Inf(1), Inf(0 - 1)}

\* x >= 0 as Python compares floats (false for NaN).
IsNonNeg(x) == (x.k = "num" /\ x.m >= 0) \/ (x.k = "inf" /\ x.m > 0)
\* abs(x)
FAbs(x) == IF x.k = "nan" THEN x ELSE [x EXCEPT !.m = Abs(x.m)]

\* numpy applies ** to a parameter vector entry by entry.
VSquare(v) == [i \in DOMAIN v |-> Square(v[i])]
VSqrt(v) == [i \in DOMAIN v |-> Sqrt(v[i])]

\* ------------------------------------------------ the model classes
\* super().__init__(endog, k_states=1, initialization='diffuse'): a model
\* over endog with one state, all system matrices zero, and the filter not
\* concentrating the scale.
MLEModel_init(cls, data) ==
  [cls |-> cls, endog |-> data, k_states |-> 1, initialization |-> "diffuse",
   design |-> Zero, transition |-> Zero, selection |-> Zero,
   state_cov |-> Zero, obs_cov |-> Zero, filter_concentrated |-> FALSE]

\* A name not yet bound to a model.
NoModel == MLEModel_init("none", <<>>)

\* class LocalLevel: _start_params = [1., 1.]
LocalLevel_start_params == <<One, One>>
\* class LocalLevel: _param_names
LocalLevel_param_names == <<"var.level", "var.irregular">>

\* LocalLevel.__init__
LocalLevel_init(data) ==
  [MLEModel_init("LocalLevel", data) EXCEPT
     !.design = One, !.transition = One, !.selection = One]

\* LocalLevel.transform_params
LocalLevel_transform_params(unconstrained) == VSquare(unconstrained)

\* LocalLevel.untransform_params
LocalLevel_untransform_params(unconstrained) == VSqrt(unconstrained)

\* Mutant: the start parameters of LocalLevel kept in the concentrated class.
Mut_start_params_two == <<One, One>>

\* class LocalLevelConcentrated: _start_params = [1.]
LocalLevelConcentrated_start_params == <<One>>
\* class LocalLevelConcentrated: _param_names
LocalLevelConcentrated_param_names == <<"ratio.irregular">>

\* Mutant: __init__ without self.ssm.filter_concentrated = True.
Mut_init_without_flag(data) ==
  [MLEModel_init("LocalLevelConcentrated", data) EXCEPT
     !.design = One, !.transition = One, !.selection = One,
     !.state_cov = One]

\* LocalLevelConcentrated.__init__
LocalLevelConcentrated_init(data) ==
  [MLEModel_init("LocalLevelConcentrated", data) EXCEPT
     !.design = One, !.transition = One, !.selection = One,
     !.state_cov = One, !.filter_concentrated = TRUE]

\* LocalLevelConcentrated.transform_params
LocalLevelConcentrated_transform_params(unconstrained) == VSquare(unconstrained)

\* Mutant: untransform_params squaring, as transform_params does.
Mut_untransform_squares(unconstrained) == VSquare(unconstrained)

\* LocalLevelConcentrated.untransform_params
LocalLevelConcentrated_untransform_params(unconstrained) == VSqrt(unconstrained)

\* self.transform_params, self.untransform_params, self._start_params,
\* self._param_names: looked up in the object's class.
transform_params(self, v) ==
  IF self.cls = "LocalLevel" THEN LocalLevel_transform_params(v)
  ELSE LocalLevelConcentrated_transform_params(v)
untransform_params(self, v) ==
  IF self.cls = "LocalLevel" THEN LocalLevel_untransform_params(v)
  ELSE LocalLevelConcentrated_untransform_params(v)
start_params(self) ==
  IF self.cls = "LocalLevel" THEN LocalLevel_start_params
  ELSE LocalLevelConcentrated_start_params
param_names(self) ==
  IF self.cls = "LocalLevel" THEN LocalLevel_param_names
  ELSE LocalLevelConcentrated_param_names

\* params = super().update(params, **kwargs): the parameters in constrained
\* form, transformed by the object's own hook unless the caller passed them
\* as already transformed.
MLEModel_update(self, params, transformed) ==
  IF transformed THEN params ELSE transform_params(self, params)

\* LocalLevel.update
LocalLevel_update(self, params, transformed) ==
  LET p == MLEModel_update(self, params, transformed)
  IN [self EXCEPT !.state_cov = p[1], !.obs_cov = p[2]]

\* Mutant: update of the concentrated class still writing state_cov, as
\* LocalLevel.update does.
Mut_update_writes_state_cov(self, params, transformed) ==
  LET p == MLEModel_update(self, params, transformed)
  IN [self EXCEPT !.state_cov = p[1], !.obs_cov = p[1]]

\* LocalLevelConcentrated.update
LocalLevelConcentrated_update(self, params, transformed) ==
  LET p == MLEModel_update(self, params, transformed)
  IN [self EXCEPT !.obs_cov = p[1]]

\* self.update
update(self, params, transformed) ==
  IF self.cls = "LocalLevel" THEN LocalLevel_update(self, params, transformed)
  ELSE LocalLevelConcentrated_update(self, params, transformed)

\* x * y on floats: the exact product, rounded once.
FMul(x, y) ==
  CASE x.k = "nan" \/ y.k = "nan" -> NaN
    [] x.k = "inf" \/ y.k = "inf" ->
         IF x.m = 0 \/ y.m = 0 THEN NaN ELSE Inf(Sign(x.m) * Sign(y.m))
    [] OTHER -> Round(x.m * y.m, x.e + y.e)

\* ------------------------------------------------------ SARIMAX models
\* sm.tsa.SARIMAX(endog, order=(p, d, q), trend=..., concentrate_scale=...):
\* a trend 'ct' has a constant and a time coefficient, 'c' and 't' one
\* coefficient, 'n' none.
SARIMAX_k_trend(trend) ==
  CASE trend = "ct" -> 2
    [] trend = "c" -> 1
    [] trend = "t" -> 1
    [] OTHER -> 0

\* The parameters of a SARIMAX model: the trend's, the p autoregressive and q
\* moving-average coefficients, and the variance unless it is concentrated
\* out.
SARIMAX_k_params(m) ==
  SARIMAX_k_trend(m.trend) + m.order[1] + m.order[3]
    + (IF m.concentrate_scale THEN 0 ELSE 1)

\* sm.tsa.SARIMAX(dta.cpi, order=(1, 0, 0), trend='ct')
SARIMAX_init(concentrate_scale) ==
  [built |-> TRUE, order |-> <<1, 0, 0>>, trend |-> "ct",
   concentrate_scale |-> concentrate_scale]

NoSarimax ==
  [built |-> FALSE, order |-> <<0, 0, 0>>, trend |-> "n",
   concentrate_scale |-> FALSE]

\* ------------------------------------------------------------- inputs
\* The vectors of length n over S.
Vec(n, S) == [1..n -> S]

\* The values the optimizer proposes for an unconstrained parameter.
Trial == { Round(n, 0 - 1) : n \in (0 - TrialMax)..TrialMax }

\* The values a concentrated filter returns as the scale: a sum of squares
\* over a count.
ScaleSet == { x \in Trial : IsNonNeg(x) }

\* The values the library's SARIMAX fit ends with are not the notebook's to
\* decide; the fitted vector is drawn with all entries alike.
SarimaxVals == {Zero, One}

\* The observed series dta.infl the local level models are built on. (The
\* SARIMAX models are built on dta.cpi, which no modelled step reads.)
Data == Vec(SeriesLen, {Zero, One})

\* A results object: the fitted parameters, the scale, and whether the
\* scale was concentrated out.
NoResults == [fitted |-> FALSE, params |-> <<>>, scale |-> Zero, concentrated |-> FALSE]

\* '<n placeholders>' % args: the number of arguments must be the number of
\* placeholders.
Format(n, args) == IF Len(args) = n THEN "printed" ELSE "TypeError"

NoOpt == [running |-> FALSE, x |-> <<>>, iterations |-> 0]

\* -------------------------------------------------------------- state
VARIABLES
  pc,           \* the statement of the notebook that runs next
  endog,        \* the observed series
  mod,          \* mod = LocalLevel(dta.infl)
  mod_conc,     \* mod_conc = LocalLevelConcentrated(dta.infl)
  opt,          \* the optimizer inside a running fit: its vector and count
  res,          \* res = mod.fit()
  res_conc,     \* res_conc = mod_conc.fit()
  mod_ar,       \* mod_ar = sm.tsa.SARIMAX(...)
  mod_ar_conc,  \* mod_ar_conc = sm.tsa.SARIMAX(..., concentrate_scale=True)
  res_ar,       \* res_ar = mod_ar.fit()
  res_ar_conc,  \* res_ar_conc = mod_ar_conc.fit()
  out,          \* what the comparing cells printed or raised
  vec,          \* SpecHooks: the vector the caller holds
  calls         \* SpecHooks: the calls made on the object, in order

vars == <<pc, endog, mod, mod_conc, opt, res, res_conc, mod_ar, mod_ar_conc,
          res_ar, res_ar_conc, out, vec, calls>>

NoOut == [compare |-> "none", h_scale |-> Zero, print_ar |-> "none", print_ar_conc |-> "none"]

\* The state before the first cell that builds a model runs.
Init ==
  /\ pc = "new_mod"
  /\ endog \in Data
  /\ mod = NoModel
  /\ mod_conc = NoModel
  /\ opt = NoOpt
  /\ res = NoResults
  /\ res_conc = NoResults
  /\ mod_ar = NoSarimax
  /\ mod_ar_conc = NoSarimax
  /\ res_ar = NoResults
  /\ res_ar_conc = NoResults
  /\ out = NoOut
  /\ vec = <<>>
  /\ calls = <<>>

\* mod = LocalLevel(dta.infl)
NewLocalLevel ==
  /\ pc = "new_mod"
  /\ mod' = LocalLevel_init(endog)
  /\ pc' = "fit_mod"
  /\ UNCHANGED <<endog, mod_conc, opt, res, res_conc, mod_ar, mod_ar_conc,
                 res_ar, res_ar_conc, out, vec, calls>>

\* mod_conc = LocalLevelConcentrated(dta.infl)
NewLocalLevelConcentrated ==
  /\ pc = "new_mod_conc"
  /\ mod_conc' = LocalLevelConcentrated_init(endog)
  /\ pc' = "fit_mod_conc"
  /\ UNCHANGED <<endog, mod, opt, res, res_conc, mod_ar, mod_ar_conc,
                 res_ar, res_ar_conc, out, vec, calls>>

\* The object whose fit() is running.
Fitting == IF pc = "fit_mod" THEN mod ELSE mod_conc

\* fit(), entry: the optimizer starts from the class's start parameters,
\* taken to the unconstrained space by the object's untransform_params.
FitStart ==
  /\ pc \in {"fit_mod", "fit_mod_conc"}
  /\ ~opt.running
  /\ opt' = [running |-> TRUE,
             x |-> untransform_params(Fitting, start_params(Fitting)),
             iterations |-> 0]
  /\ UNCHANGED <<pc, endog, mod, mod_conc, res, res_conc, mod_ar, mod_ar_conc,
                 res_ar, res_ar_conc, out, vec, calls>>

\* fit(), one evaluation of the likelihood: the optimizer proposes a vector of
\* the dimension it started with; it is transformed by the object's
\* transform_params and passed to the object's update.
FitEval ==
  /\ pc \in {"fit_mod", "fit_mod_conc"}
  /\ opt.running
  /\ opt.iterations < MaxIter
  /\ \E x \in Vec(Len(opt.x), Trial) :
       LET self == update(Fitting, transform_params(Fitting, x), TRUE)
       IN /\ opt' = [opt EXCEPT !.x = x, !.iterations = @ + 1]
          /\ mod' = IF pc = "fit_mod" THEN self ELSE mod
          /\ mod_conc' = IF pc = "fit_mod" THEN mod_conc ELSE self
  /\ UNCHANGED <<pc, endog, res, res_conc, mod_ar, mod_ar_conc,
                 res_ar, res_ar_conc, out, vec, calls>>

\* The scale a filter pass reports: computed by the filter when it
\* concentrates the scale out, 1 otherwise.
FilterScale(self) == IF self.filter_concentrated THEN ScaleSet ELSE {One}

\* fit(), return: the optimizer's last vector, transformed, is passed to
\* update once more and becomes the results' params.
FitFinish ==
  /\ pc \in {"fit_mod", "fit_mod_conc"}
  /\ opt.running
  /\ \E scale \in FilterScale(Fitting) :
       LET params == transform_params(Fitting, opt.x)
           self == update(Fitting, params, TRUE)
           results == [fitted |-> TRUE, params |-> params, scale |-> scale,
                       concentrated |-> self.filter_concentrated]
       IN /\ mod' = IF pc = "fit_mod" THEN self ELSE mod
          /\ mod_conc' = IF pc = "fit_mod" THEN mod_conc ELSE self
          /\ res' = IF pc = "fit_mod" THEN results ELSE res
          /\ res_conc' = IF pc = "fit_mod" THEN res_conc ELSE results
  /\ opt' = NoOpt
  /\ pc' = IF pc = "fit_mod" THEN "new_mod_conc" ELSE "compare"
  /\ UNCHANGED <<endog, mod_ar, mod_ar_conc, res_ar, res_ar_conc, out, vec, calls>>

\* The cell comparing the estimates: res.params[0], res.params[1],
\* res_conc.scale and res_conc.params[0] * res_conc.scale.
Compare ==
  /\ pc = "compare"
  /\ out' = IF Len(res.params) >= 2 /\ Len(res_conc.params) >= 1
            THEN [out EXCEPT !.compare = "printed",
                             !.h_scale = FMul(res_conc.params[1], res_conc.scale)]
            ELSE [out EXCEPT !.compare = "IndexError"]
  /\ pc' = "new_mod_ar"
  /\ UNCHANGED <<endog, mod, mod_conc, opt, res, res_conc, mod_ar, mod_ar_conc,
                 res_ar, res_ar_conc, vec, calls>>

\* mod_ar = sm.tsa.SARIMAX(dta.cpi, order=(1, 0, 0), trend='ct')
\* res_ar = mod_ar.fit()
FitSarimax ==
  /\ pc = "new_mod_ar"
  /\ \E v \in SarimaxVals :
       LET m == SARIMAX_init(FALSE)
       IN /\ mod_ar' = m
          /\ res_ar' = [fitted |-> TRUE,
                        params |-> [i \in 1..SARIMAX_k_params(m) |-> v],
                        scale |-> One, concentrated |-> FALSE]
  /\ pc' = "new_mod_ar_conc"
  /\ UNCHANGED <<endog, mod, mod_conc, opt, res, res_conc, mod_ar_conc,
                 res_ar_conc, out, vec, calls>>

\* mod_ar_conc = sm.tsa.SARIMAX(dta.cpi, order=(1, 0, 0), trend='ct', concentrate_scale=True)
\* res_ar_conc = mod_ar_conc.fit()
FitSarimaxConcentrated ==
  /\ pc = "new_mod_ar_conc"
  /\ \E v \in SarimaxVals, scale \in ScaleSet :
       LET m == SARIMAX_init(TRUE)
       IN /\ mod_ar_conc' = m
          /\ res_ar_conc' = [fitted |-> TRUE,
                             params |-> [i \in 1..SARIMAX_k_params(m) |-> v],
                             scale |-> scale, concentrated |-> TRUE]
  /\ pc' = "print_ar"
  /\ UNCHANGED <<endog, mod, mod_conc, opt, res, res_conc, mod_ar,
                 res_ar, out, vec, calls>>

\* The cell printing the SARIMAX parameters: four placeholders filled from
\* tuple(res_ar.params), and four from tuple(res_ar_conc.params) +
\* (res_ar_conc.scale,).
PrintSarimax ==
  /\ pc = "print_ar"
  /\ out' = [out EXCEPT
       !.print_ar = Format(4, res_ar.params),
       !.print_ar_conc = Format(4, Append(res_ar_conc.params, res_ar_conc.scale))]
  /\ pc' = "done"
  /\ UNCHANGED <<endog, mod, mod_conc, opt, res, res_conc, mod_ar, mod_ar_conc,
                 res_ar, res_ar_conc, vec, calls>>

Next ==
  \/ NewLocalLevel
  \/ FitStart
  \/ FitEval
  \/ FitFinish
  \/ NewLocalLevelConcentrated
  \/ Compare
  \/ FitSarimax
  \/ FitSarimaxConcentrated
  \/ PrintSarimax

Spec == Init /\ [][Next]_vars

\* ------------------------------------- the hooks called on one object
\* A caller builds one model and calls its transform_params,
\* untransform_params and update directly, each on the vector it holds;
\* the vector is any vector of floats of the model's dimension.
MinusOne == Round(0 - 1, 0)

HookVectors(target) ==
  IF target = "api_mod"
  THEN { <<x, y>> : x \in Floats, y \in {Zero, One, MinusOne} }
  ELSE { <<x>> : x \in Floats }

InitHooks ==
  /\ pc \in {"api_mod", "api_mod_conc"}
  /\ endog = [i \in 1..SeriesLen |-> One]
  /\ mod = NoModel
  /\ mod_conc = NoModel
  /\ opt = NoOpt
  /\ res = NoResults
  /\ res_conc = NoResults
  /\ mod_ar = NoSarimax
  /\ mod_ar_conc = NoSarimax
  /\ res_ar = NoResults
  /\ res_ar_conc = NoResults
  /\ out = NoOut
  /\ vec \in HookVectors(pc)
  /\ calls = <<>>

\* The object the caller holds.
Held == IF pc = "api_mod" THEN mod ELSE mod_conc

\* LocalLevel(endog) or LocalLevelConcentrated(endog)
HookNew ==
  /\ pc \in {"api_mod", "api_mod_conc"}
  /\ Held.cls = "none"
  /\ mod' = IF pc = "api_mod" THEN LocalLevel_init(endog) ELSE mod
  /\ mod_conc' = IF pc = "api_mod" THEN mod_conc ELSE LocalLevelConcentrated_init(endog)
  /\ UNCHANGED <<pc, endog, opt, res, res_conc, mod_ar, mod_ar_conc,
                 res_ar, res_ar_conc, out, vec, calls>>

\* vec = self.transform_params(vec)
HookTransform ==
  /\ pc \in {"api_mod", "api_mod_conc"}
  /\ Held.cls # "none"
  /\ Len(calls) < MaxCalls
  /\ vec' = transform_params(Held, vec)
  /\ calls' = Append(calls, [op |-> "transform_params", arg |-> vec,
                             ret |-> vec', transformed |-> FALSE])
  /\ UNCHANGED <<pc, endog, mod, mod_conc, opt, res, res_conc, mod_ar,
                 mod_ar_conc, res_ar, res_ar_conc, out>>

\* vec = self.untransform_params(vec)
HookUntransform ==
  /\ pc \in {"api_mod", "api_mod_conc"}
  /\ Held.cls # "none"
  /\ Len(calls) < MaxCalls
  /\ vec' = untransform_params(Held, vec)
  /\ calls' = Append(calls, [op |-> "untransform_params", arg |-> vec,
                             ret |-> vec', transformed |-> FALSE])
  /\ UNCHANGED <<pc, endog, mod, mod_conc, opt, res, res_conc, mod_ar,
                 mod_ar_conc, res_ar, res_ar_conc, out>>

\* self.update(vec, transformed=...): returns nothing, the caller's vector
\* stays.
HookUpdate ==
  /\ pc \in {"api_mod", "api_mod_conc"}
  /\ Held.cls # "none"
  /\ Len(calls) < MaxCalls
  /\ \E transformed \in BOOLEAN :
       /\ mod' = IF pc = "api_mod" THEN update(mod, vec, transformed) ELSE mod
       /\ mod_conc' = IF pc = "api_mod" THEN mod_conc ELSE update(mod_conc, vec, transformed)
       /\ calls' = Append(calls, [op |-> "update", arg |-> vec,
                                  ret |-> vec, transformed |-> transformed])
  /\ UNCHANGED <<pc, endog, opt, res, res_conc, mod_ar, mod_ar_conc,
                 res_ar, res_ar_conc, out, vec>>

NextHooks ==
  \/ HookNew
  \/ HookTransform
  \/ HookUntransform
  \/ HookUpdate

SpecHooks == InitHooks /\ [][NextHooks]_vars

\* ------------------------------------------------ measuring rounding
\* A finite float in units of 2^Emin, and the unit in its last place.
Units(x) == x.m * 2^(x.e - Emin)
Ulp(x) == IF x.m = 0 THEN 1 ELSE 2^(x.e - Emin)

\* y is c, or a neighbour of c within one unit in the last place of c.
WithinOneUlp(c, y) ==
  IF c.k = "num" THEN y.k = "num" /\ Abs(Units(y) - Units(c)) <= Ulp(c)
  ELSE y = c

\* r is exactly the square root of the finite c.
ExactRoot(c, r) ==
  /\ c.k = "num"
  /\ r.k = "num"
  /\ r.m * r.m * 2^(2 * (r.e - Emin)) = c.m * 2^(c.e - 2 * Emin)

\* x**2 came out without overflow and without underflow: x is 0 or
\* infinite, or the square is a normal number.
SquareInRange(x, sq) ==
  \/ x.k = "inf"
  \/ x.m = 0
  \/ (sq.k = "num" /\ Abs(sq.m) >= 2^(MantBits - 1))

NoNaN(v) == \A i \in DOMAIN v : v[i].k # "nan"
AllNonNeg(v) == \A i \in DOMAIN v : IsNonNeg(v[i])

\* The parameters the last update call wrote from: its argument, squared
\* entry by entry unless it was passed as already transformed.
Updates == { i \in 1..Len(calls) : calls[i].op = "update" }
LastUpdate == CHOOSE i \in Updates : \A j \in Updates : j <= i
Written ==
  LET c == calls[LastUpdate]
  IN IF c.transformed THEN c.arg ELSE [j \in DOMAIN c.arg |-> Square(c.arg[j])]

\* ---------------------------------------------------------------- C10
\* C10 as stated: transform_params gives x**2 >= 0; for every non-negative
\* c, transform_params(untransform_params(c)) = c; and
\* untransform_params(transform_params(x)) = |x| for every x (so = x only
\* for x >= 0).
C10_Original ==
  \A i \in 1..Len(calls) :
    LET c == calls[i]
    IN /\ (c.op = "transform_params" /\ NoNaN(c.arg)) => AllNonNeg(c.ret)
       /\ (i > 1 /\ calls[i-1].op = "untransform_params" /\ c.op = "transform_params"
             /\ AllNonNeg(calls[i-1].arg))
          => c.ret = calls[i-1].arg
       /\ (i > 1 /\ calls[i-1].op = "transform_params" /\ c.op = "untransform_params"
             /\ NoNaN(calls[i-1].arg))
          => c.ret = [j \in DOMAIN c.ret |-> FAbs(calls[i-1].arg[j])]

\* C10, amended: on every vector without NaN, transform_params gives
\* non-negative entries; for every non-negative c,
\* transform_params(untransform_params(c)) is c up to rounding: within one
\* unit in the last place of c, and c itself when the square root of c is
\* exact; untransform_params(transform_params(x)) = |x| whenever x**2
\* neither overflows nor underflows; and an update that transforms its
\* argument, or is passed the result of transform_params, writes only
\* non-negative entries into the covariance matrices.
C10_HooksRoundTrip ==
  /\ \A i \in 1..Len(calls) :
       LET c == calls[i]
       IN /\ (c.op = "transform_params" /\ NoNaN(c.arg)) => AllNonNeg(c.ret)
          /\ (i > 1 /\ calls[i-1].op = "untransform_params" /\ c.op = "transform_params"
                /\ AllNonNeg(calls[i-1].arg))
             => \A j \in DOMAIN c.ret :
                  /\ WithinOneUlp(calls[i-1].arg[j], c.ret[j])
                  /\ ExactRoot(calls[i-1].arg[j], c.arg[j]) => c.ret[j] = calls[i-1].arg[j]
          /\ (i > 1 /\ calls[i-1].op = "transform_params" /\ c.op = "untransform_params"
                /\ NoNaN(calls[i-1].arg))
             => \A j \in DOMAIN c.ret :
                  SquareInRange(calls[i-1].arg[j], c.arg[j])
                    => c.ret[j] = FAbs(calls[i-1].arg[j])
  /\ (/\ calls # <<>>
      /\ calls[Len(calls)].op = "update"
      /\ NoNaN(calls[Len(calls)].arg)
      /\ \/ ~calls[Len(calls)].transformed
         \/ (Len(calls) > 1 /\ calls[Len(calls)-1].op = "transform_params"
               /\ NoNaN(calls[Len(calls)-1].arg)))
     => /\ IsNonNeg(Held.obs_cov)
        /\ IsNonNeg(Held.state_cov)

\* A non-negative c went through untransform_params and then
\* transform_params and came back as a neighbour of c, not c.
C10_Witness ==
  /\ Len(calls) = 2
  /\ calls[1].op = "untransform_params"
  /\ calls[2].op = "transform_params"
  /\ AllNonNeg(calls[1].arg)
  /\ calls[2].ret # calls[1].arg
  /\ \A j \in DOMAIN vec : WithinOneUlp(calls[1].arg[j], vec[j])

\* ----------------------------------------------------------------- C7
\* C7: a LocalLevelConcentrated object keeps design, transition, selection
\* and state_cov at 1 (and filter_concentrated set) from __init__ on, through
\* every update; update writes obs_cov = params[0] and nothing else. A
\* LocalLevel object keeps design, transition and selection at 1, and its
\* update writes state_cov = params[0] and obs_cov = params[1].
C7_ScaleTermFixed ==
  /\ mod_conc.cls # "none" =>
       /\ mod_conc.design = One
       /\ mod_conc.transition = One
       /\ mod_conc.selection = One
       /\ mod_conc.state_cov = One
       /\ mod_conc.filter_concentrated
       /\ mod_conc.obs_cov = IF Updates = {} THEN Zero ELSE Written[1]
       /\ mod = NoModel
  /\ mod.cls # "none" =>
       /\ mod.design = One
       /\ mod.transition = One
       /\ mod.selection = One
       /\ ~mod.filter_concentrated
       /\ mod.state_cov = IF Updates = {} THEN Zero ELSE Written[1]
       /\ mod.obs_cov = IF Updates = {} THEN Zero ELSE Written[2]
       /\ mod_conc = NoModel

\* A LocalLevelConcentrated object has been updated twice, the second time
\* with a ratio that is not 1, and state_cov is still 1.
C7_Witness ==
  /\ mod_conc.cls = "LocalLevelConcentrated"
  /\ Len(calls) = 2
  /\ calls[1].op = "update"
  /\ calls[2].op = "update"
  /\ mod_conc.obs_cov \notin {Zero, One}
  /\ mod_conc.state_cov = One

\* ----------------------------------------------------------------- C4
\* C4: the concentrated formulation yields a scale and a parameter vector
\* one shorter than the unconcentrated one: LocalLevel is fitted over 2
\* parameters ('var.level', 'var.irregular'), LocalLevelConcentrated over 1
\* ('ratio.irregular') plus the scale; SARIMAX with concentrate_scale=True
\* has 3 parameters plus the scale where the default has 4, so both lines
\* of four placeholders print.
C4_OneFewerParameter ==
  /\ (pc = "fit_mod" /\ opt.running) => Len(opt.x) = 2
  /\ (pc = "fit_mod_conc" /\ opt.running) => Len(opt.x) = 1
  /\ res.fitted =>
       /\ Len(res.params) = 2
       /\ Len(param_names(mod)) = 2
       /\ ~res.concentrated
  /\ res_conc.fitted =>
       /\ Len(res_conc.params) + 1 = Len(res.params)
       /\ Len(param_names(mod_conc)) + 1 = Len(param_names(mod))
       /\ res_conc.concentrated
       /\ res_conc.scale \in ScaleSet
  /\ res_ar.fitted =>
       /\ Len(res_ar.params) = 4
       /\ ~res_ar.concentrated
  /\ res_ar_conc.fitted =>
       /\ Len(res_ar_conc.params) + 1 = Len(res_ar.params)
       /\ res_ar_conc.concentrated
       /\ res_ar_conc.scale \in ScaleSet
  /\ pc \in {"new_mod_ar", "new_mod_ar_conc", "print_ar", "done"} => out.compare = "printed"
  /\ pc = "done" => (out.print_ar = "printed" /\ out.print_ar_conc = "printed")

\* All four fits have returned and the comparing cells have printed.
C4_Witness ==
  /\ pc = "done"
  /\ res.fitted
  /\ res_conc.fitted
  /\ res_ar.fitted
  /\ res_ar_conc.fitted
  /\ out.print_ar_conc = "printed"

\* ----------------------------------------------------------------- C9
\* The series is constant: its level never moves, so the maximum-likelihood
\* variance of the level, the term LocalLevelConcentrated fixes to 1, is 0.
ConstantSeries(y) == \A i, j \in DOMAIN y : y[i] = y[j]

\* C9 as stated: when the normalization term can be exactly zero, the
\* estimation falls back to full numerical maximization over the
\* unconcentrated parameter vector.
C9_Original ==
  (ConstantSeries(endog) /\ res_conc.fitted) =>
     /\ Len(res_conc.params) = Len(LocalLevel_start_params)
     /\ ~res_conc.concentrated

\* C9, amended: when the normalization term can be exactly zero, the
\* notebook still does not fall back: mod_conc.fit() searches over the one
\* parameter ratio.irregular with the scale concentrated out, and state_cov
\* stays fixed to 1.
C9_NoFallback ==
  ConstantSeries(endog) =>
     /\ (pc = "fit_mod_conc" /\ opt.running) =>
          /\ Len(opt.x) = Len(LocalLevelConcentrated_param_names)
          /\ mod_conc.filter_concentrated
          /\ mod_conc.state_cov = One
     /\ res_conc.fitted =>
          /\ Len(res_conc.params) = Len(LocalLevelConcentrated_param_names)
          /\ res_conc.concentrated
          /\ mod_conc.filter_concentrated
          /\ mod_conc.state_cov = One

\* mod_conc.fit() has returned on a constant series, after the optimizer
\* moved away from the start parameters.
C9_Witness ==
  /\ ConstantSeries(endog)
  /\ res_conc.fitted
  /\ res_conc.params # LocalLevelConcentrated_start_params

====
